---- MODULE Spec2Model ----
(***************************************************************************)
(* Model of the RPCfi simulation engine of src/app.py: the class           *)
(* RPCfiSimulator (__init__, generate_future_revenue_data,                 *)
(* load_revenue_data, calculate_buybacks, calculate_lp_units,              *)
(* calculate_lp_value, calculate_yield, run_simulation), and of the        *)
(* Streamlit script that drives it (main, show_about_page,                 *)
(* show_overview_page) with the session state kept between script runs.    *)
(*                                                                         *)
(* Numbers.  The program computes with Python floats.  They are modelled   *)
(* as exact rationals <<numerator, denominator>> in lowest terms with a    *)
(* positive denominator; the decimal literals of the source are the        *)
(* rationals they denote (4.33 = 433/100, 0.25 = 1/4): the rounding of     *)
(* binary floating point is left out of the engine's runs.  Where rounding *)
(* decides a property (converting USD to token units and back), the same   *)
(* lines are also evaluated in binary64, the format of a Python float,     *)
(* with round to nearest, ties to even.                                    *)
(*                                                                         *)
(* Optional values (a missing dictionary key, None) are records            *)
(* [present |-> FALSE] and [present |-> TRUE, value |-> v].                *)
(***************************************************************************)
EXTENDS Integers, Sequences, FiniteSets, TLC

(***************************************************************************)
(* Rational arithmetic                                                     *)
(***************************************************************************)
Abs(n) == IF n < 0 THEN -n ELSE n

RECURSIVE GCD(_, _)
GCD(a, b) == IF b = 0 THEN a ELSE GCD(b, a % b)

\* The rational n/d (d # 0) in lowest terms, denominator positive.
Rat(n, d) ==
    LET g == GCD(Abs(n), Abs(d))
        s == IF d < 0 THEN -1 ELSE 1
    IN  <<(s * n) \div g, (s * d) \div g>>

I(n) == <<n, 1>>

RMul(a, b) ==
    LET g1 == GCD(Abs(a[1]), b[2])
        g2 == GCD(Abs(b[1]), a[2])
    IN  Rat((a[1] \div g1) * (b[1] \div g2), (a[2] \div g2) * (b[2] \div g1))

\* a / b for b # 0
RDiv(a, b) == RMul(a, Rat(b[2], b[1]))

RAdd(a, b) ==
    LET g == GCD(a[2], b[2])
    IN  Rat(a[1] * (b[2] \div g) + b[1] * (a[2] \div g), (a[2] \div g) * b[2])

RSub(a, b) == RAdd(a, <<-b[1], b[2]>>)

RLe(a, b) == RSub(a, b)[1] <= 0
RLt(a, b) == RSub(a, b)[1] < 0
RIsZero(a) == a[1] = 0

RECURSIVE RSum(_)
RSum(s) == IF s = <<>> THEN I(0) ELSE RAdd(s[1], RSum(Tail(s)))

(***************************************************************************)
(* Call by value.  Strict1(a, F) is F(a) with a evaluated once, before F   *)
(* is applied (and likewise for 2 and 3 arguments); the operators below    *)
(* use it for every intermediate result they refer to more than once.      *)
(***************************************************************************)
Strict1(a, F(_)) == CHOOSE r \in {F(x) : x \in {a}} : TRUE
Strict2(a, b, F(_, _)) == CHOOSE r \in {F(x, y) : x \in {a}, y \in {b}} : TRUE
Strict3(a, b, c, F(_, _, _)) ==
    CHOOSE r \in {F(x, y, z) : x \in {a}, y \in {b}, z \in {c}} : TRUE

(***************************************************************************)
(* Natural numbers of any size, for the 53-bit significands of binary64:   *)
(* little-endian sequences of limbs below Limb, without leading zero limbs *)
(* (0 is <<>>)                                                             *)
(***************************************************************************)
Limb == 16384
LimbBits == 14

RECURSIVE Pow2(_)
Pow2(k) == IF k = 0 THEN 1 ELSE 2 * Pow2(k - 1)

RECURSIVE BigOfInt(_)
BigOfInt(n) == IF n = 0 THEN <<>> ELSE <<n % Limb>> \o BigOfInt(n \div Limb)

\* limb i of x, 0 beyond its length
LimbAt(x, i) == IF i <= Len(x) THEN x[i] ELSE 0

\* the first n limbs of x without the leading zero limbs among them
RECURSIVE BigTrimTo(_, _)
BigTrimTo(x, n) ==
    IF n = 0 THEN <<>>
    ELSE IF x[n] = 0 THEN BigTrimTo(x, n - 1) ELSE SubSeq(x, 1, n)

BigTrim(a) == Strict1(a, LAMBDA x : BigTrimTo(x, Len(x)))

\* the carry out of limb i of x + y
RECURSIVE AddCarry(_, _, _)
AddCarry(x, y, i) ==
    IF i = 0 THEN 0
    ELSE (LimbAt(x, i) + LimbAt(y, i) + AddCarry(x, y, i - 1)) \div Limb

BigAdd(a, b) ==
    Strict2(a, b, LAMBDA x, y :
        BigTrim([i \in 1..((IF Len(x) >= Len(y) THEN Len(x) ELSE Len(y)) + 1) |->
                    (LimbAt(x, i) + LimbAt(y, i) + AddCarry(x, y, i - 1)) % Limb]))

\* the borrow out of limb i of x - y
RECURSIVE SubBorrow(_, _, _)
SubBorrow(x, y, i) ==
    IF i = 0 THEN 0
    ELSE IF x[i] - LimbAt(y, i) - SubBorrow(x, y, i - 1) < 0 THEN 1 ELSE 0

\* x - y for x >= y
BigSub(a, b) ==
    Strict2(a, b, LAMBDA x, y :
        BigTrim([i \in 1..Len(x) |->
                    (x[i] - LimbAt(y, i) - SubBorrow(x, y, i - 1) + Limb) % Limb]))

\* -1, 0, 1 as x < y, x = y, x > y
RECURSIVE BigCmpFrom(_, _, _)
BigCmpFrom(x, y, i) ==
    IF i = 0 THEN 0
    ELSE IF x[i] < y[i] THEN -1
    ELSE IF x[i] > y[i] THEN 1
    ELSE BigCmpFrom(x, y, i - 1)

BigCmp(a, b) ==
    Strict2(a, b, LAMBDA x, y :
        IF Len(x) < Len(y) THEN -1
        ELSE IF Len(x) > Len(y) THEN 1
        ELSE BigCmpFrom(x, y, Len(x)))

\* the carry out of limb i of x * k
RECURSIVE MulCarry(_, _, _)
MulCarry(x, k, i) ==
    IF i = 0 THEN 0 ELSE (x[i] * k + MulCarry(x, k, i - 1)) \div Limb

\* x * k for 0 <= k <= Limb
BigMulLimb(a, k) ==
    Strict1(a, LAMBDA x :
        BigTrim([i \in 1..(Len(x) + 1) |->
                    IF i <= Len(x)
                    THEN (x[i] * k + MulCarry(x, k, i - 1)) % Limb
                    ELSE MulCarry(x, k, Len(x))]))

\* x * Limb^n
BigShiftLimbs(x, n) == IF x = <<>> THEN <<>> ELSE [i \in 1..n |-> 0] \o x

\* x * (the limbs j.. of y), added up from the top limb of y down
RECURSIVE BigMulFrom(_, _, _)
BigMulFrom(x, y, j) ==
    IF j > Len(y) THEN <<>>
    ELSE BigAdd(BigMulLimb(x, y[j]), BigShiftLimbs(BigMulFrom(x, y, j + 1), 1))

BigMul(a, b) == Strict2(a, b, LAMBDA x, y : BigMulFrom(x, y, 1))

\* x * 2^k
BigShl(a, k) == BigShiftLimbs(BigMulLimb(a, Pow2(k % LimbBits)), k \div LimbBits)

\* the remainder left below limb i when x is divided by d from the top
RECURSIVE DivRem(_, _, _)
DivRem(x, d, i) ==
    IF i > Len(x) THEN 0 ELSE (DivRem(x, d, i + 1) * Limb + x[i]) % d

\* floor(x / d) for 0 < d <= Limb
BigDivLimb(a, d) ==
    Strict1(a, LAMBDA x :
        BigTrim([i \in 1..Len(x) |-> (DivRem(x, d, i + 1) * Limb + x[i]) \div d]))

\* floor(x / 2^k)
BigShr(a, k) ==
    Strict1(a, LAMBDA x :
        IF k \div LimbBits >= Len(x) THEN <<>>
        ELSE BigDivLimb(SubSeq(x, (k \div LimbBits) + 1, Len(x)), Pow2(k % LimbBits)))

RECURSIVE IntBitLen(_)
IntBitLen(n) == IF n = 0 THEN 0 ELSE 1 + IntBitLen(n \div 2)

BigBitLen(a) ==
    Strict1(a, LAMBDA x :
        IF x = <<>> THEN 0 ELSE (Len(x) - 1) * LimbBits + IntBitLen(x[Len(x)]))

BigIsOdd(a) == Strict1(a, LAMBDA x : x # <<>> /\ x[1] % 2 = 1)

\* Long division, one bit of the quotient per step: n steps from the
\* remainder rem (< 2y) give the next n bits q of the quotient and the
\* remainder, doubled, to go on from.
RECURSIVE DivSteps(_, _, _, _)
DivSteps(rem0, y, n, q) ==
    Strict1(rem0, LAMBDA rem :
        IF n = 0 THEN [q |-> q, rem |-> rem]
        ELSE IF BigCmp(rem, y) >= 0
        THEN DivSteps(BigMulLimb(BigSub(rem, y), 2), y, n - 1, 2 * q + 1)
        ELSE DivSteps(BigMulLimb(rem, 2), y, n - 1, 2 * q))

\* [q, inexact] for x < 2y: q = floor(x * 2^55 / y), its 56 bits found limb
\* by limb from the top, and inexact iff a remainder is left
BigDiv55(x, y0) ==
    Strict1(y0, LAMBDA y :
    Strict1(DivSteps(x, y, LimbBits, 0), LAMBDA d4 :
    Strict1(DivSteps(d4.rem, y, LimbBits, 0), LAMBDA d3 :
    Strict1(DivSteps(d3.rem, y, LimbBits, 0), LAMBDA d2 :
    Strict1(DivSteps(d2.rem, y, LimbBits, 0), LAMBDA d1 :
        [q |-> BigTrim(<<d1.q, d2.q, d3.q, d4.q>>), inexact |-> d1.rem # <<>>])))))

(***************************************************************************)
(* binary64 (the Python float): a positive number is [m, e] with           *)
(* 2^52 <= m < 2^53 and stands for m x 2^e; zero is Zero64.  Every         *)
(* operation rounds its exact result to nearest, ties to even.  The        *)
(* numbers used are positive and far from overflow and underflow.          *)
(***************************************************************************)
Precision == 53
Zero64 == [m |-> <<>>, e |-> 0]

\* x with its last `shift` bits rounded away (shift >= 1); the bits beyond
\* x are not all 0 iff sticky
RoundBits(a, shift, sticky) ==
    Strict2(a, BigShr(a, shift), LAMBDA x, q :
        Strict1(BigCmp(BigSub(x, BigShl(q, shift)), BigShl(<<1>>, shift - 1)),
                LAMBDA c :
                    IF c > 0 \/ (c = 0 /\ (sticky \/ BigIsOdd(q)))
                    THEN BigAdd(q, <<1>>) ELSE q))

\* the binary64 nearest to (x + f) x 2^e, with 0 <= f < 1 and f > 0 iff sticky
Round64(a, e, sticky) ==
    Strict2(a, BigBitLen(a), LAMBDA x, len :
        IF x = <<>> THEN Zero64
        ELSE IF len <= Precision
        THEN [m |-> BigShl(x, Precision - len), e |-> e - (Precision - len)]
        ELSE Strict1(RoundBits(x, len - Precision, sticky), LAMBDA q :
                 IF BigBitLen(q) > Precision
                 THEN [m |-> BigShr(q, 1), e |-> e + (len - Precision) + 1]
                 ELSE [m |-> q, e |-> e + (len - Precision)]))

\* float(n) for an integer 0 <= n < 2^31
Int64(n) == Round64(BigOfInt(n), 0, FALSE)

\* a * b
FMul(a0, b0) ==
    Strict2(a0, b0, LAMBDA a, b :
        IF a.m = <<>> \/ b.m = <<>> THEN Zero64
        ELSE Round64(BigMul(a.m, b.m), a.e + b.e, FALSE))

\* a / b for b > 0
FDiv(a0, b0) ==
    Strict2(a0, b0, LAMBDA a, b :
        IF a.m = <<>> THEN Zero64
        ELSE Strict1(BigDiv55(a.m, b.m), LAMBDA d :
                 Round64(d.q, a.e - b.e - 55, d.inexact)))

\* a + b
FAdd(a0, b0) ==
    Strict2(a0, b0, LAMBDA a, b :
        IF a.m = <<>> THEN b
        ELSE IF b.m = <<>> THEN a
        ELSE IF a.e >= b.e
             THEN Round64(BigAdd(BigShl(a.m, a.e - b.e), b.m), b.e, FALSE)
             ELSE Round64(BigAdd(BigShl(b.m, b.e - a.e), a.m), a.e, FALSE))

\* The float a decimal literal denotes: the binary64 nearest to n/d, which
\* is what the correctly rounded quotient of the two integers is.
Dec(n, d) == FDiv(Int64(n), Int64(d))

(***************************************************************************)
(* Optional values                                                         *)
(***************************************************************************)
None == [present |-> FALSE]
Some(v) == [present |-> TRUE, value |-> v]

(***************************************************************************)
(* Calendar dates: datetime values as records [y, m, d]                    *)
(***************************************************************************)
Date(y, m, d) == [y |-> y, m |-> m, d |-> d]

IsLeap(y) == (y % 4 = 0 /\ y % 100 # 0) \/ y % 400 = 0

DaysIn(y, m) ==
    IF m = 2 THEN (IF IsLeap(y) THEN 29 ELSE 28)
    ELSE IF m \in {4, 6, 9, 11} THEN 30 ELSE 31

\* datetime comparison a <= b
DateLe(a, b) ==
    \/ a.y < b.y
    \/ a.y = b.y /\ a.m < b.m
    \/ a.y = b.y /\ a.m = b.m /\ a.d <= b.d

DateLt(a, b) == DateLe(a, b) /\ a # b

\* date + timedelta(days = n), n >= 0
RECURSIVE AddDays(_, _)
AddDays(dt, n) ==
    IF dt.d + n <= DaysIn(dt.y, dt.m) THEN Date(dt.y, dt.m, dt.d + n)
    ELSE AddDays(IF dt.m = 12 THEN Date(dt.y + 1, 1, 1) ELSE Date(dt.y, dt.m + 1, 1),
                 n - (DaysIn(dt.y, dt.m) - dt.d) - 1)

\* strftime('%Y-%m'): the month key drops the day of the month
MonthKey(dt) == <<dt.y, dt.m>>

\* pd.to_datetime of a 'YYYY-MM' key: the first day of that month
ToDatetime(key) == Date(key[1], key[2], 1)

(***************************************************************************)
(* Dictionaries with insertion order: sequences of <<key, value>> pairs    *)
(***************************************************************************)
Keys(dict) == [i \in 1..Len(dict) |-> dict[i][1]]
Values(dict) == [i \in 1..Len(dict) |-> dict[i][2]]

\* dict[key] = value: replaces the value of an existing key, else appends
DictSet(dict, key, value) ==
    IF \E i \in 1..Len(dict) : dict[i][1] = key
    THEN [i \in 1..Len(dict) |-> IF dict[i][1] = key THEN <<key, value>> ELSE dict[i]]
    ELSE Append(dict, <<key, value>>)

(***************************************************************************)
(* RPCfiSimulator.__init__ : the simulator object built from a config      *)
(***************************************************************************)
DefaultApyScenarios == [worst |-> I(20), base |-> I(30), best |-> I(40)]

SimulatorInit(cfg) ==
    [ config |-> cfg,
      native_token |-> cfg.native_token,
      governance_token |-> cfg.governance_token,
      token_prices |-> cfg.token_prices,
      initial_lp |-> cfg.initial_lp,
      growth_multiplier |-> cfg.growth_multiplier,
      expected_future_growth_multiplier |-> cfg.expected_future_growth_multiplier,
      apy_scenarios |-> IF cfg.apy_scenarios.present
                        THEN cfg.apy_scenarios.value ELSE DefaultApyScenarios,
      historical_data |-> IF cfg.historical_data.present
                          THEN cfg.historical_data.value ELSE <<>>,
      simulation_data |-> None ]

(***************************************************************************)
(* RPCfiSimulator.generate_future_revenue_data                             *)
(***************************************************************************)
DefaultStart == Date(2026, 1, 1)
DefaultEnd == Date(2027, 12, 31)
DefaultLastMonthRevenue == I(35000)

PeriodStart(cfg) ==
    IF cfg.simulation_period.present /\ cfg.simulation_period.value.start.present
    THEN cfg.simulation_period.value.start.value ELSE DefaultStart

PeriodEnd(cfg) ==
    IF cfg.simulation_period.present /\ cfg.simulation_period.value.end.present
    THEN cfg.simulation_period.value.end.value ELSE DefaultEnd

\* (a.year - b.year) * 12 + (a.month - b.month)
MonthsBetween(a, b) == (a.y - b.y) * 12 + (a.m - b.m)

\* Variant: the first value of the historical series is the base.
LastMonthRevenueFirstValue(self) ==
    IF self.historical_data # <<>>
    THEN Values(self.historical_data)[1]
    ELSE DefaultLastMonthRevenue

LastMonthRevenue(self) ==
    IF self.historical_data # <<>>
    THEN Values(self.historical_data)[Len(self.historical_data)]
    ELSE DefaultLastMonthRevenue

\* Variant: the base revenue is not pre-scaled by the initial multiplier.
BaseRevenueUnscaled(self) == LastMonthRevenue(self)

\* line 144
BaseRevenue(self) == RMul(LastMonthRevenue(self), self.growth_multiplier)

GrowthFactor(self, months_elapsed, total_months) ==
    IF total_months > 0
    THEN RAdd(I(1), RMul(RSub(self.expected_future_growth_multiplier, I(1)),
                         Rat(months_elapsed, total_months)))
    ELSE I(1)

\* "Next month": datetime.replace raises ValueError when the day of the month
\* does not exist in the target month.
NextMonth(current_date) ==
    IF current_date.m = 12
    THEN Some(Date(current_date.y + 1, 1, current_date.d))
    ELSE IF current_date.d <= DaysIn(current_date.y, current_date.m + 1)
         THEN Some(Date(current_date.y, current_date.m + 1, current_date.d))
         ELSE None

\* The while loop; the result is [raised, error, value].
RECURSIVE GenerateLoop(_, _, _, _, _)
GenerateLoop(self, start_date, end_date, current_date, revenue_data) ==
    IF ~DateLe(current_date, end_date)
    THEN [raised |-> FALSE, error |-> "", value |-> revenue_data]
    ELSE LET months_elapsed == MonthsBetween(current_date, start_date)
             total_months == MonthsBetween(end_date, start_date)
             growth_factor == GrowthFactor(self, months_elapsed, total_months)
             monthly_revenue == RMul(BaseRevenue(self), growth_factor)
             data == DictSet(revenue_data, MonthKey(current_date), monthly_revenue)
             next == NextMonth(current_date)
         IN  IF next.present
             THEN GenerateLoop(self, start_date, end_date, next.value, data)
             ELSE [raised |-> TRUE, error |-> "ValueError", value |-> <<>>]

generate_future_revenue_data(self) ==
    GenerateLoop(self, PeriodStart(self.config), PeriodEnd(self.config),
                 PeriodStart(self.config), <<>>)

(***************************************************************************)
(* RPCfiSimulator.load_revenue_data                                        *)
(***************************************************************************)
WeeksPerMonth == Rat(433, 100)
WeeksGenerated == 4

\* df.sort_values('Month'): insertion sort of the rows by their month
RECURSIVE InsertRow(_, _)
InsertRow(sorted, row) ==
    IF sorted = <<>> THEN <<row>>
    ELSE IF DateLt(row.Month, sorted[1].Month) THEN <<row>> \o sorted
         ELSE <<sorted[1]>> \o InsertRow(Tail(sorted), row)

RECURSIVE SortByMonth(_)
SortByMonth(rows) ==
    IF rows = <<>> THEN <<>>
    ELSE InsertRow(SortByMonth(SubSeq(rows, 1, Len(rows) - 1)), rows[Len(rows)])

MonthRows(revenue_data) ==
    SortByMonth([i \in 1..Len(revenue_data) |->
                    [Month |-> ToDatetime(revenue_data[i][1]),
                     RPC_Revenue_USD |-> revenue_data[i][2]]])

\* Variant: the month's revenue is split exactly over the weeks generated.
WeeksOfMonthExactPartition(row) ==
    [week \in 1..WeeksGenerated |->
        [Date |-> AddDays(row.Month, 7 * (week - 1)),
         RPC_Revenue_USD |-> RDiv(row.RPC_Revenue_USD, I(WeeksGenerated))]]

\* the weekly points of one month row
WeeksOfMonth(row) ==
    [week \in 1..WeeksGenerated |->
        [Date |-> AddDays(row.Month, 7 * (week - 1)),
         RPC_Revenue_USD |-> RDiv(row.RPC_Revenue_USD, WeeksPerMonth)]]

RECURSIVE ExpandWeeks(_)
ExpandWeeks(rows) ==
    IF rows = <<>> THEN <<>>
    ELSE WeeksOfMonth(rows[1]) \o ExpandWeeks(Tail(rows))

load_revenue_data(revenue_data) == ExpandWeeks(MonthRows(revenue_data))

(***************************************************************************)
(* The per-week calculators                                                *)
(***************************************************************************)
BuybackShare == Rat(25, 100)
BuybackPoolShare == Rat(50, 100)

\* Variant: each token gets the whole buyback pool instead of its half.
calculate_buybacks_whole_pool(weekly_revenue) ==
    [trx_buyback |-> RMul(BuybackPoolShare, weekly_revenue),
     ankr_buyback |-> RMul(BuybackPoolShare, weekly_revenue)]

calculate_buybacks(weekly_revenue) ==
    [trx_buyback |-> RMul(BuybackShare, weekly_revenue),
     ankr_buyback |-> RMul(BuybackShare, weekly_revenue)]

\* self.token_prices[token]: KeyError when the token has no price
HasPrice(self, token) == token \in DOMAIN self.token_prices

\* calculate_lp_units: [raised, error, trx_units, ankr_units].  The two price
\* lookups come first, then the two divisions; a float division by a zero
\* price raises ZeroDivisionError.
calculate_lp_units(self, trx_buyback, ankr_buyback) ==
    IF ~HasPrice(self, self.native_token) \/ ~HasPrice(self, self.governance_token)
    THEN [raised |-> TRUE, error |-> "KeyError"]
    ELSE LET trx_price == self.token_prices[self.native_token]
             ankr_price == self.token_prices[self.governance_token]
         IN  IF RIsZero(trx_price) \/ RIsZero(ankr_price)
             THEN [raised |-> TRUE, error |-> "ZeroDivisionError"]
             ELSE [raised |-> FALSE, error |-> "",
                   trx_units |-> RDiv(trx_buyback, trx_price),
                   ankr_units |-> RDiv(ankr_buyback, ankr_price)]

calculate_lp_value(self, trx_units, ankr_units) ==
    LET trx_price == self.token_prices[self.native_token]
        ankr_price == self.token_prices[self.governance_token]
    IN  RAdd(RMul(trx_units, trx_price), RMul(ankr_units, ankr_price))

WeeksPerYear == 52

\* Variant: the annual rate is spread over the 12 months of the year.
calculate_yield_monthly(lp_value, apy) ==
    RDiv(RMul(lp_value, RDiv(apy, I(100))), I(12))

calculate_yield(lp_value, apy) ==
    RDiv(RMul(lp_value, RDiv(apy, I(100))), I(WeeksPerYear))

(***************************************************************************)
(* Lines 98-123 in binary64, for positive prices                           *)
(***************************************************************************)
calculate_buybacks_binary64(weekly_revenue) ==
    Strict1(Dec(25, 100), LAMBDA share :
        [ trx_buyback |-> FMul(share, weekly_revenue),
          ankr_buyback |-> FMul(share, weekly_revenue) ])

calculate_lp_units_binary64(token_prices, trx_buyback, ankr_buyback) ==
    [ trx_units |-> FDiv(trx_buyback, token_prices.TRX),
      ankr_units |-> FDiv(ankr_buyback, token_prices.ANKR) ]

\* Variant: only the native token's units are valued.
calculate_lp_value_binary64_native_only(token_prices, trx_units, ankr_units) ==
    FMul(trx_units, token_prices.TRX)

calculate_lp_value_binary64(token_prices, trx_units, ankr_units) ==
    FAdd(FMul(trx_units, token_prices.TRX), FMul(ankr_units, token_prices.ANKR))

\* Lines 194-204 and the columns of the record they decide: one week of the
\* loop on [token_prices, weekly_df, results, cumulative_dev_lp].
WeekStepBinary64(run) ==
    LET week_num == Len(run.results)
        weekly_revenue == run.weekly_df[week_num + 1]
    IN  Strict1(calculate_buybacks_binary64(weekly_revenue), LAMBDA bb :
        Strict1(calculate_lp_units_binary64(run.token_prices,
                                            bb.trx_buyback, bb.ankr_buyback),
                LAMBDA units :
        Strict1(calculate_lp_value_binary64(run.token_prices,
                                            units.trx_units, units.ankr_units),
                LAMBDA weekly_lp_value :
        Strict1(FAdd(run.cumulative_dev_lp, weekly_lp_value),
                LAMBDA cumulative_dev_lp :
            [run EXCEPT
                !.results = Append(run.results,
                    [ Week |-> week_num + 1,
                      RPC_Revenue_USD |-> weekly_revenue,
                      TRX_Buyback_USD |-> bb.trx_buyback,
                      ANKR_Buyback_USD |-> bb.ankr_buyback,
                      TRX_Units |-> units.trx_units,
                      ANKR_Units |-> units.ankr_units,
                      Weekly_LP_Value_USD |-> weekly_lp_value,
                      Cumulative_RPCfi_LP_USD |-> cumulative_dev_lp ]),
                !.cumulative_dev_lp = cumulative_dev_lp]))))

\* No binary64 run.
NoRun64 ==
    [token_prices |-> [TRX |-> Zero64, ANKR |-> Zero64],
     weekly_df |-> <<>>, results |-> <<>>, cumulative_dev_lp |-> Zero64]

(***************************************************************************)
(* RPCfiSimulator.run_simulation, as steps over its local variables        *)
(***************************************************************************)
\* The locals of run_simulation before its first statement.
EmptyFrame ==
    [ apy_scenario |-> "",
      revenue_data |-> <<>>,
      weekly_df |-> <<>>,
      apy |-> None,
      results |-> <<>>,
      cumulative_dev_lp |-> I(0),
      cumulative_dev_yield |-> I(0),
      cumulative_foundation_yield |-> I(0),
      foundation_lp_value |-> None,
      week_num |-> 0,
      trx_buyback |-> None,
      ankr_buyback |-> None ]

\* Variant: an unknown scenario name falls back to the base case APY.
ApyOfOrDefault(self, apy_scenario) ==
    IF apy_scenario \in DOMAIN self.apy_scenarios
    THEN Some(self.apy_scenarios[apy_scenario])
    ELSE Some(I(30))

\* line 181, self.apy_scenarios[apy_scenario]: None stands for the KeyError
ApyOf(self, apy_scenario) ==
    IF apy_scenario \in DOMAIN self.apy_scenarios
    THEN Some(self.apy_scenarios[apy_scenario])
    ELSE None

\* Variant: only the first contributor's liquidity is counted.
FoundationLpValueFirstOnly(self) ==
    IF self.initial_lp = <<>> THEN I(0) ELSE self.initial_lp[1]

\* line 190, sum(self.initial_lp.values())
FoundationLpValue(self) == RSum(self.initial_lp)

\* Variant: the week's yield on the liquidity so far is added to the liquidity.
CumulativeDevLpCompounding(fr, weekly_lp_value) ==
    RAdd(RAdd(fr.cumulative_dev_lp, weekly_lp_value),
         calculate_yield(fr.cumulative_dev_lp, fr.apy.value))

\* line 204, cumulative_dev_lp += weekly_lp_value
CumulativeDevLpNext(fr, weekly_lp_value) ==
    RAdd(fr.cumulative_dev_lp, weekly_lp_value)

\* Variant: the week's yield is taken off the running total.
CumulativeYieldLess(total, weekly_yield) == RSub(total, weekly_yield)

\* lines 211-212, cumulative yield += this week's yield
CumulativeYieldNext(total, weekly_yield) == RAdd(total, weekly_yield)

\* Lines 174-190: everything before the loop.  [raised, error, frame]
StartFrame(self, apy_scenario) ==
    LET gen == generate_future_revenue_data(self)
        f0 == [EmptyFrame EXCEPT !.apy_scenario = apy_scenario]
    IN  IF gen.raised
        THEN [raised |-> TRUE, error |-> gen.error, frame |-> f0]
        ELSE LET f1 == [f0 EXCEPT !.revenue_data = gen.value,
                                  !.weekly_df = load_revenue_data(gen.value)]
                 apy == ApyOf(self, apy_scenario)
             IN  IF ~apy.present
                 THEN [raised |-> TRUE, error |-> "KeyError", frame |-> f1]
                 ELSE [raised |-> FALSE, error |-> "",
                       frame |-> [f1 EXCEPT
                           !.apy = apy,
                           !.foundation_lp_value = Some(FoundationLpValue(self))]]

\* Variant: the developer yield is taken on the liquidity before this week's
\* deposit.
DevYieldBaseBeforeDeposit(fr, cumulative_dev_lp) == fr.cumulative_dev_lp

\* line 207: the liquidity the developer yield is taken on is the cumulative
\* total line 204 has just updated
DevYieldBase(fr, cumulative_dev_lp) == cumulative_dev_lp

\* Lines 192-230: one iteration of the loop.  [raised, error, frame]
WeekStep(self, fr) ==
    LET row == fr.weekly_df[fr.week_num + 1]
        weekly_revenue == row.RPC_Revenue_USD
        bb == calculate_buybacks(weekly_revenue)
        f1 == [fr EXCEPT !.trx_buyback = Some(bb.trx_buyback),
                         !.ankr_buyback = Some(bb.ankr_buyback)]
        units == calculate_lp_units(self, bb.trx_buyback, bb.ankr_buyback)
    IN  IF units.raised
        THEN [raised |-> TRUE, error |-> units.error, frame |-> f1]
        ELSE LET weekly_lp_value ==
                     calculate_lp_value(self, units.trx_units, units.ankr_units)
                 cumulative_dev_lp == CumulativeDevLpNext(fr, weekly_lp_value)
                 dev_yield ==
                     calculate_yield(DevYieldBase(fr, cumulative_dev_lp), fr.apy.value)
                 foundation_yield ==
                     calculate_yield(fr.foundation_lp_value.value, fr.apy.value)
                 cumulative_dev_yield ==
                     CumulativeYieldNext(fr.cumulative_dev_yield, dev_yield)
                 cumulative_foundation_yield ==
                     CumulativeYieldNext(fr.cumulative_foundation_yield, foundation_yield)
                 record ==
                     [ Date |-> row.Date,
                       Week |-> fr.week_num + 1,
                       RPC_Revenue_USD |-> weekly_revenue,
                       TRX_Buyback_USD |-> bb.trx_buyback,
                       ANKR_Buyback_USD |-> bb.ankr_buyback,
                       TRX_Units |-> units.trx_units,
                       ANKR_Units |-> units.ankr_units,
                       Weekly_LP_Value_USD |-> weekly_lp_value,
                       Cumulative_RPCfi_LP_USD |-> cumulative_dev_lp,
                       Total_LP_TVL_USD |->
                           RAdd(cumulative_dev_lp, fr.foundation_lp_value.value),
                       Dev_Weekly_Yield_USD |-> dev_yield,
                       Foundation_Weekly_Yield_USD |-> foundation_yield,
                       Cumulative_Dev_Yield_USD |-> cumulative_dev_yield,
                       Cumulative_Foundation_Yield_USD |-> cumulative_foundation_yield ]
             IN  [raised |-> FALSE, error |-> "",
                  frame |-> [f1 EXCEPT
                      !.results = Append(fr.results, record),
                      !.cumulative_dev_lp = cumulative_dev_lp,
                      !.cumulative_dev_yield = cumulative_dev_yield,
                      !.cumulative_foundation_yield = cumulative_foundation_yield,
                      !.week_num = fr.week_num + 1]]

\* What a call hands to its caller: a returned table or a raised exception.
Returned(apy_scenario, value) ==
    [kind |-> "returned", scenario |-> apy_scenario, error |-> "", value |-> value]
Raised(apy_scenario, error) ==
    [kind |-> "raised", scenario |-> apy_scenario, error |-> error, value |-> <<>>]
NoOutcome == [kind |-> "none", scenario |-> "", error |-> "", value |-> <<>>]

(***************************************************************************)
(* Configurations: the inputs the model draws from                         *)
(***************************************************************************)
Config(start, end, prices, lp, gm, fut, apy, hist) ==
    [ chain_name |-> "Tron",
      native_token |-> "TRX",
      governance_token |-> "ANKR",
      token_prices |-> prices,
      initial_lp |-> lp,
      growth_multiplier |-> gm,
      expected_future_growth_multiplier |-> fut,
      apy_scenarios |-> apy,
      historical_data |-> hist,
      simulation_period |-> Some([start |-> Some(start), end |-> Some(end)]) ]

\* Periods: one month, several months, a year change, a start day later in
\* the month than the end day, a day 31, and a start after the end.
StartDates == {Date(2026, 11, 1), Date(2026, 11, 15), Date(2026, 12, 31)}
EndDates == {Date(2026, 10, 31), Date(2026, 11, 20), Date(2027, 1, 10), Date(2027, 1, 31)}

GoodPrices == [TRX |-> Rat(12, 100), ANKR |-> Rat(25, 1000)]

\* Prices: both positive, a zero price, a negative price, a missing price.
PriceMaps ==
    { GoodPrices,
      [TRX |-> I(0), ANKR |-> Rat(25, 1000)],
      [TRX |-> Rat(12, 100), ANKR |-> Rat(-25, 1000)],
      [ANKR |-> Rat(25, 1000)] }

\* The values of the initial_lp mapping, in its order.
InitialLps == { <<I(50000), I(50000)>>, <<I(50000), I(-60000)>> }

GrowthMultipliers == {I(1), Rat(3, 2)}
FutureMultipliers == {I(2)}

ApyConfigs == {None, Some([base |-> I(10), best |-> I(50)])}

HistoricalConfigs ==
    { None,
      Some(<< <<<<2025, 8>>, I(30000)>>, <<<<2025, 9>>, I(40000)>> >>),
      Some(<< <<<<2025, 9>>, I(40000)>>, <<<<2025, 8>>, I(30000)>> >>) }

\* A series with the single entry 2025-09 -> 35000.
SingleEntryHistory == << <<<<2025, 9>>, I(35000)>> >>

\* <<start, end>> in one calendar month with start <= end: the whole month,
\* a single day, and the day 31 of a month that a 30-day month follows.
SameMonthPeriods ==
    { <<Date(2026, 11, 1), Date(2026, 11, 30)>>,
      <<Date(2026, 11, 20), Date(2026, 11, 20)>>,
      <<Date(2026, 10, 31), Date(2026, 10, 31)>> }

\* Every period with every price map and baseline, the good periods with
\* every multiplier, scenario set and historical series, and the one-month
\* periods with a one-entry historical series.
Configs ==
    { Config(start, end, prices, lp, Rat(3, 2), I(2), None, None) :
        start \in StartDates, end \in EndDates, prices \in PriceMaps,
        lp \in InitialLps }
    \cup
    { Config(Date(2026, 11, 1), end, GoodPrices, lp, gm, fut, apy, hist) :
        end \in {Date(2026, 11, 20), Date(2027, 1, 31)},
        lp \in InitialLps, gm \in GrowthMultipliers, fut \in FutureMultipliers,
        apy \in ApyConfigs, hist \in HistoricalConfigs }
    \cup
    { Config(period[1], period[2], GoodPrices, <<I(50000), I(50000)>>, gm, I(2),
             None, Some(SingleEntryHistory)) :
        period \in SameMonthPeriods, gm \in GrowthMultipliers }

\* The scenario names a caller passes to run_simulation.
ScenarioNames == {"base", "best", "bogus"}

\* The number of run_simulation calls made on one simulator.
MaxRuns == 2

(***************************************************************************)
(* State                                                                   *)
(***************************************************************************)
VARIABLES
    sim,        \* the RPCfiSimulator object (its attributes)
    pc,         \* where run_simulation is: "idle" (not running) or "loop"
    frame,      \* the locals of the current, or else the last, run_simulation call
    entry,      \* sim.simulation_data as it was when that call was entered
    calls,      \* what each finished call gave its caller, in call order
    projected,  \* what a direct generate_future_revenue_data call gave
    objects,    \* the DataFrame objects line 232 created, in creation order:
                \* the contents of each now (an object's identity is its index)
    refs,       \* who refers to which of them: the simulation_data attribute
                \* (0 for None) and the caller of each call that returned
    run64,      \* the weeks of a run evaluated in binary64
    session_state,  \* st.session_state of the browser session: key -> value
    script      \* the script run of main() in that session: where it is
                \* and how many script runs the session has started

vars == <<sim, pc, frame, entry, calls, projected, objects, refs, run64,
         session_state, script>>

NoRefs == [simulation_data |-> 0, returned |-> <<>>]

\* st.session_state with no key set, and no script run of main().
NoSessionState == [key \in {} |-> None]
NoScript == [at |-> "none", runs |-> 0]

Init ==
    /\ sim \in {SimulatorInit(cfg) : cfg \in Configs}
    /\ pc = "idle"
    /\ frame = EmptyFrame
    /\ entry = None
    /\ calls = <<>>
    /\ projected = None
    /\ objects = <<>>
    /\ refs = NoRefs
    /\ run64 = NoRun64
    /\ session_state = NoSessionState
    /\ script = NoScript

\* Variant: the running totals are kept from the previous call instead of
\* being set to 0 at the start of a run.
RunStartKeepingTotals(apy_scenario) ==
    /\ pc = "idle"
    /\ Len(calls) < MaxRuns
    /\ LET st == StartFrame(sim, apy_scenario)
       IN  /\ frame' = [st.frame EXCEPT
                           !.cumulative_dev_lp = frame.cumulative_dev_lp,
                           !.cumulative_dev_yield = frame.cumulative_dev_yield,
                           !.cumulative_foundation_yield =
                               frame.cumulative_foundation_yield]
           /\ entry' = sim.simulation_data
           /\ IF st.raised
              THEN /\ pc' = "idle"
                   /\ calls' = Append(calls, Raised(apy_scenario, st.error))
              ELSE /\ pc' = "loop"
                   /\ calls' = calls
    /\ UNCHANGED <<sim, projected, objects, refs, run64,
                 session_state, script>>

\* run_simulation(apy_scenario), lines 171-190: up to the loop
RunStart(apy_scenario) ==
    /\ pc = "idle"
    /\ Len(calls) < MaxRuns
    /\ LET st == StartFrame(sim, apy_scenario)
       IN  /\ frame' = st.frame
           /\ entry' = sim.simulation_data
           /\ IF st.raised
              THEN /\ pc' = "idle"
                   /\ calls' = Append(calls, Raised(apy_scenario, st.error))
              ELSE /\ pc' = "loop"
                   /\ calls' = calls
    /\ UNCHANGED <<sim, projected, objects, refs, run64,
                 session_state, script>>

\* Variant: the table built so far is stored on the simulator after every
\* week instead of once after the loop.
RunWeekStoringPartial ==
    /\ pc = "loop"
    /\ frame.week_num < Len(frame.weekly_df)
    /\ LET st == WeekStep(sim, frame)
       IN  /\ frame' = st.frame
           /\ sim' = [sim EXCEPT !.simulation_data = Some(st.frame.results)]
           /\ IF st.raised
              THEN /\ pc' = "idle"
                   /\ calls' = Append(calls, Raised(frame.apy_scenario, st.error))
              ELSE /\ pc' = "loop"
                   /\ calls' = calls
    /\ UNCHANGED <<entry, projected, objects, refs, run64,
                 session_state, script>>

\* run_simulation, lines 192-230: one iteration of the loop over the weeks
RunWeek ==
    /\ pc = "loop"
    /\ frame.week_num < Len(frame.weekly_df)
    /\ LET st == WeekStep(sim, frame)
       IN  /\ frame' = st.frame
           /\ IF st.raised
              THEN /\ pc' = "idle"
                   /\ calls' = Append(calls, Raised(frame.apy_scenario, st.error))
              ELSE /\ pc' = "loop"
                   /\ calls' = calls
    /\ UNCHANGED <<sim, entry, projected, objects, refs, run64,
                 session_state, script>>

\* Variant: a table the simulator already holds is overwritten in place and
\* handed out again instead of a new object being created.
RunFinishReusingObject ==
    /\ pc = "loop"
    /\ frame.week_num = Len(frame.weekly_df)
    /\ LET object == IF refs.simulation_data # 0
                     THEN refs.simulation_data ELSE Len(objects) + 1
       IN  /\ objects' = IF refs.simulation_data # 0
                         THEN [objects EXCEPT ![object] = frame.results]
                         ELSE Append(objects, frame.results)
           /\ refs' = [simulation_data |-> object,
                       returned |-> Append(refs.returned,
                                      [call |-> Len(calls) + 1, object |-> object])]
    /\ sim' = [sim EXCEPT !.simulation_data = Some(frame.results)]
    /\ calls' = Append(calls, Returned(frame.apy_scenario, frame.results))
    /\ pc' = "idle"
    /\ UNCHANGED <<frame, entry, projected, run64,
                 session_state, script>>

\* run_simulation, lines 232-233: pd.DataFrame(results) makes a new object,
\* the attribute is bound to it and the same reference is returned
RunFinish ==
    /\ pc = "loop"
    /\ frame.week_num = Len(frame.weekly_df)
    /\ LET object == Len(objects) + 1
       IN  /\ objects' = Append(objects, frame.results)
           /\ refs' = [simulation_data |-> object,
                       returned |-> Append(refs.returned,
                                      [call |-> Len(calls) + 1, object |-> object])]
    /\ sim' = [sim EXCEPT !.simulation_data = Some(frame.results)]
    /\ calls' = Append(calls, Returned(frame.apy_scenario, frame.results))
    /\ pc' = "idle"
    /\ UNCHANGED <<frame, entry, projected, run64,
                 session_state, script>>

Next ==
    \/ \E apy_scenario \in ScenarioNames : RunStart(apy_scenario)
    \/ RunWeek
    \/ RunFinish

Spec == Init /\ [][Next]_vars

(***************************************************************************)
(* The projection alone: generate_future_revenue_data called directly      *)
(***************************************************************************)
\* <<start, end>> periods: a 12-month horizon, a single month, a year change,
\* start days later in the month than the end day, and a 24-month horizon.
ProjectionPeriods ==
    { <<Date(2026, 1, 1), Date(2027, 1, 1)>>,
      <<Date(2026, 1, 15), Date(2027, 1, 10)>>,
      <<Date(2026, 1, 1), Date(2026, 1, 31)>>,
      <<Date(2026, 11, 1), Date(2027, 2, 28)>>,
      <<Date(2026, 11, 15), Date(2027, 1, 10)>>,
      <<Date(2026, 1, 1), Date(2028, 1, 1)>> }

\* The (initial, future) multipliers of the About page's growth scenarios.
ProjectionInitialMultipliers == {I(1), Rat(3, 2), I(2)}
ProjectionFutureMultipliers == {Rat(9, 5), I(2), Rat(7, 2)}

\* No historical_data key, an empty series, one entry, and two entries in
\* and out of chronological order.
ProjectionHistoricalConfigs ==
    HistoricalConfigs \cup {Some(<<>>), Some(SingleEntryHistory)}

\* Values of a configuration key "growth_strategy".  A config dictionary may
\* carry any key; __init__ and generate_future_revenue_data read none that
\* names a growth curve.
GrowthStrategies == {"linear", "milestone"}

ProjectionConfigs ==
    { Config(period[1], period[2], GoodPrices,
             <<I(50000), I(50000)>>, gm, fut, apy, hist)
        @@ [growth_strategy |-> strategy] :
        period \in ProjectionPeriods, gm \in ProjectionInitialMultipliers,
        fut \in ProjectionFutureMultipliers, apy \in ApyConfigs,
        hist \in ProjectionHistoricalConfigs, strategy \in GrowthStrategies }

InitProjection ==
    /\ sim \in {SimulatorInit(cfg) : cfg \in ProjectionConfigs}
    /\ pc = "idle"
    /\ frame = EmptyFrame
    /\ entry = None
    /\ calls = <<>>
    /\ projected = None
    /\ objects = <<>>
    /\ refs = NoRefs
    /\ run64 = NoRun64
    /\ session_state = NoSessionState
    /\ script = NoScript

\* simulator.generate_future_revenue_data()
Project ==
    /\ ~projected.present
    /\ projected' = Some(generate_future_revenue_data(sim))
    /\ UNCHANGED <<sim, pc, frame, entry, calls, objects, refs, run64,
                 session_state, script>>

NextProjection == Project

SpecProjection == InitProjection /\ [][NextProjection]_vars

(***************************************************************************)
(* The weeks of a run in binary64: weekly revenues and prices as floats    *)
(***************************************************************************)
\* Positive prices: the sample configuration's and others.
Prices64 ==
    { [TRX |-> Dec(12, 100), ANKR |-> Dec(25, 1000)],
      [TRX |-> Dec(3, 10), ANKR |-> Dec(2, 100)],
      [TRX |-> Dec(2500, 1), ANKR |-> Dec(25, 1000)],
      [TRX |-> Dec(85, 100), ANKR |-> Dec(7, 1)] }

\* line 85: the weekly revenue of a month with a whole-dollar revenue
WeeklyOf(monthly_revenue) == FDiv(Int64(monthly_revenue), Dec(433, 100))

\* Weekly revenue series: the weeks of constant and of growing months, and
\* amounts given in dollars and cents.
RevenueSeries64 ==
    { <<WeeklyOf(35000), WeeklyOf(35000), WeeklyOf(35000), WeeklyOf(35000)>>,
      <<WeeklyOf(49000), WeeklyOf(49000), WeeklyOf(63000), WeeklyOf(63000)>>,
      <<WeeklyOf(52500), WeeklyOf(61250), WeeklyOf(70000), WeeklyOf(105000)>>,
      <<Dec(808314, 100), Dec(808314, 100), Dec(1212471, 100), Dec(1616628, 100)>>,
      <<Dec(10000, 1), Dec(1, 100), Dec(250075, 100), Dec(1, 3)>>,
      <<Dec(1131639, 100), Dec(1239415, 100), Dec(1454965, 100), Dec(999999, 1000)>>,
      <<WeeklyOf(40000), WeeklyOf(30000), Dec(692841, 100), WeeklyOf(120000)>> }

InitBinary64 ==
    /\ sim = SimulatorInit(Config(DefaultStart, DefaultEnd, GoodPrices,
                                  <<I(50000), I(50000)>>, I(1), I(2), None, None))
    /\ pc = "idle"
    /\ frame = EmptyFrame
    /\ entry = None
    /\ calls = <<>>
    /\ projected = None
    /\ objects = <<>>
    /\ refs = NoRefs
    /\ run64 \in { [token_prices |-> token_prices, weekly_df |-> weekly_df,
                     results |-> <<>>, cumulative_dev_lp |-> Zero64] :
                       token_prices \in Prices64, weekly_df \in RevenueSeries64 }
    /\ session_state = NoSessionState
    /\ script = NoScript

\* one iteration of the loop of run_simulation, lines 194-204
WeekBinary64 ==
    /\ Len(run64.results) < Len(run64.weekly_df)
    /\ run64' = WeekStepBinary64(run64)
    /\ UNCHANGED <<sim, pc, frame, entry, calls, projected, objects, refs,
                 session_state, script>>

NextBinary64 == WeekBinary64

SpecBinary64 == InitBinary64 /\ [][NextBinary64]_vars

(***************************************************************************)
(* The Streamlit pages: main, show_about_page, show_overview_page          *)
(***************************************************************************)
\* lines 404-423: the selectable growth scenarios of the About page
growth_scenarios ==
    [ Conservative |-> [initial |-> I(1), future |-> Rat(9, 5)],
      Moderate |-> [initial |-> Rat(3, 2), future |-> I(2)],
      Optimistic |-> [initial |-> I(2), future |-> Rat(7, 2)] ]

\* lines 425-429: the selectbox shows options[index] with index=1 until the
\* user selects another one
DefaultGrowthScenario == "Moderate"

\* lines 431-434: the session state after the About page has rendered
show_about_page(session, selected_scenario) ==
    ("rpcfi_growth_initial_multiplier" :> growth_scenarios[selected_scenario].initial)
    @@ ("rpcfi_growth_future_multiplier" :> growth_scenarios[selected_scenario].future)
    @@ ("rpcfi_selected_growth_scenario" :> <<selected_scenario>>)
    @@ session

\* lines 469-472: the simulator after the Overview page has applied the
\* growth settings of the session state
ApplyGrowthSettings(self, session) ==
    [self EXCEPT
        !.growth_multiplier =
            IF "rpcfi_growth_initial_multiplier" \in DOMAIN session
            THEN session["rpcfi_growth_initial_multiplier"] ELSE @,
        !.expected_future_growth_multiplier =
            IF "rpcfi_growth_future_multiplier" \in DOMAIN session
            THEN session["rpcfi_growth_future_multiplier"] ELSE @]

\* lines 476-480: the options of the APY selectbox, list(apy_scenarios.keys());
\* the scenario names are kept in the order worst, base, best of line 64
ApyOptions(self) ==
    SelectSeq(<<"worst", "base", "best">>,
              LAMBDA name : name \in DOMAIN self.apy_scenarios)

\* config_tron.json as load_config returns it: the growth multipliers of the
\* Moderate scenario or others, with the default or with own APY scenarios.
PageConfigs ==
    { Config(Date(2026, 11, 1), Date(2027, 1, 31), GoodPrices,
             <<I(50000), I(50000)>>, gm, I(2), apy, None) :
        gm \in GrowthMultipliers, apy \in ApyConfigs }

\* The script runs of main() one browser session starts.
MaxScriptRuns == 4

\* What the user does to start the next script run: select a growth scenario
\* on the About page, select an APY scenario on the Overview page, or click
\* "Run Simulation".
UserEvents(self) ==
    { [widget |-> "growth", value |-> name] : name \in DOMAIN growth_scenarios }
    \cup { [widget |-> "apy", value |-> ApyOptions(self)[k]] :
             k \in 1..Len(ApyOptions(self)) }
    \cup { [widget |-> "button", value |-> ""] }

\* The first script run of a session, at line 283: the simulator is
\* constructed from the configuration, the widgets have their defaults and
\* no key of the session state is set.
InitPages ==
    /\ sim \in {SimulatorInit(cfg) : cfg \in PageConfigs}
    /\ pc = "idle"
    /\ frame = EmptyFrame
    /\ entry = None
    /\ calls = <<>>
    /\ projected = None
    /\ objects = <<>>
    /\ refs = NoRefs
    /\ run64 = NoRun64
    /\ session_state = NoSessionState
    /\ script = [at |-> "about", runs |-> 1,
                 selected_scenario |-> DefaultGrowthScenario,
                 apy_scenario |-> ApyOptions(sim)[1],
                 clicked |-> FALSE]

\* show_about_page, lines 300-462: it sets the three keys of the session state
ShowAboutPage ==
    /\ script.at = "about"
    /\ session_state' = show_about_page(session_state, script.selected_scenario)
    /\ script' = [script EXCEPT !.at = "overview"]
    /\ UNCHANGED <<sim, pc, frame, entry, calls, projected, objects, refs, run64>>

\* show_overview_page, lines 464-489: the growth settings are written on the
\* simulator and, when the button was clicked, run_simulation is called with
\* the selected APY scenario (its lines 171-190, up to the loop)
ShowOverviewPage ==
    /\ script.at = "overview"
    /\ pc = "idle"
    /\ sim' = ApplyGrowthSettings(sim, session_state)
    /\ IF script.clicked
       THEN LET st == StartFrame(ApplyGrowthSettings(sim, session_state),
                                 script.apy_scenario)
            IN  /\ frame' = st.frame
                /\ entry' = sim.simulation_data
                /\ IF st.raised
                   THEN /\ pc' = "idle"
                        /\ calls' = Append(calls, Raised(script.apy_scenario, st.error))
                   ELSE /\ pc' = "loop"
                        /\ calls' = calls
       ELSE UNCHANGED <<frame, entry, pc, calls>>
    /\ script' = [script EXCEPT !.at = "summary"]
    /\ UNCHANGED <<projected, objects, refs, run64, session_state>>

\* lines 491-533 of show_overview_page, show_buyback_page and show_yield_page,
\* lines 535-750: they display the simulator and its table and change neither;
\* an exception of the run ends the script run as well
ShowResults ==
    /\ script.at = "summary"
    /\ pc = "idle"
    /\ script' = [script EXCEPT !.at = "end"]
    /\ UNCHANGED <<sim, pc, frame, entry, calls, projected, objects, refs, run64,
                   session_state>>

\* main, lines 261-283: a user event starts the script again; the
\* configuration is loaded and a new simulator is constructed from it, the
\* session state is kept
Rerun(event) ==
    /\ script.at = "end"
    /\ script.runs < MaxScriptRuns
    /\ sim' = SimulatorInit(sim.config)
    /\ script' = [at |-> "about", runs |-> script.runs + 1,
                  selected_scenario |-> IF event.widget = "growth"
                                        THEN event.value
                                        ELSE script.selected_scenario,
                  apy_scenario |-> IF event.widget = "apy"
                                   THEN event.value ELSE script.apy_scenario,
                  clicked |-> event.widget = "button"]
    /\ UNCHANGED <<pc, frame, entry, calls, projected, objects, refs, run64,
                   session_state>>

NextPages ==
    \/ ShowAboutPage
    \/ ShowOverviewPage
    \/ RunWeek
    \/ RunFinish
    \/ ShowResults
    \/ \E event \in UserEvents(sim) : Rerun(event)

SpecPages == InitPages /\ [][NextPages]_vars

(***************************************************************************)
(* Shared vocabulary of the properties                                     *)
(***************************************************************************)
ConfigStart == PeriodStart(sim.config)
ConfigEnd == PeriodEnd(sim.config)
ValidPeriod == DateLe(ConfigStart, ConfigEnd)

\* The number of calendar months from the start month through the end month.
CalendarMonths == MonthsBetween(ConfigEnd, ConfigStart) + 1

\* The calendar month i months after the start month, as a month key.
MonthAfterStart(i) ==
    <<ConfigStart.y + ((ConfigStart.m - 1 + i) \div 12), ((ConfigStart.m - 1 + i) % 12) + 1>>

ExpectedMonthKeys == [i \in 1..CalendarMonths |-> MonthAfterStart(i - 1)]

ReturnedCalls == {i \in 1..Len(calls) : calls[i].kind = "returned"}
RaisedCalls == {i \in 1..Len(calls) : calls[i].kind = "raised"}

(***************************************************************************)
(* C1                                                                      *)
(***************************************************************************)
\* C1: for every valid period (start <= end, any days of the month) the
\* projection has exactly one entry per calendar month from the start month
\* through the end month, ascending, and run_simulation returns 4 x (number of
\* months) records whose Week runs 1, 2, ..., 4M.
C1_OneEntryPerMonth ==
    ValidPeriod =>
        /\ \A i \in RaisedCalls : calls[i].error # "ValueError"
        /\ pc = "loop" => Keys(frame.revenue_data) = ExpectedMonthKeys
        /\ \A i \in ReturnedCalls :
              /\ Len(calls[i].value) = 4 * CalendarMonths
              /\ \A w \in 1..Len(calls[i].value) : calls[i].value[w].Week = w

(***************************************************************************)
(* C2                                                                      *)
(***************************************************************************)
\* monthly revenue / last historical value, for entry i of a projection
EffectiveMultiplier(revenue_data, i) ==
    RDiv(revenue_data[i][2], LastMonthRevenue(sim))

ProjectionDone == projected.present /\ ~projected.value.raised
TotalMonths == MonthsBetween(ConfigEnd, ConfigStart)
Ramp15To20Over12 ==
    /\ sim.growth_multiplier = Rat(3, 2)
    /\ sim.expected_future_growth_multiplier = I(2)
    /\ TotalMonths = 12

\* C2 as stated: with initial 1.5, future 2.0 and a 12-month horizon the
\* effective multiplier is 1.5 at month 0 and 2.0 at month 12 and increases in
\* between; in general it ramps linearly from initial to future.
C2_RampEndsAtFuture ==
    ProjectionDone =>
        LET data == projected.value.value
        IN  /\ Ramp15To20Over12 =>
                 /\ Len(data) = 13
                 /\ EffectiveMultiplier(data, 1) = Rat(3, 2)
                 /\ EffectiveMultiplier(data, 13) = I(2)
                 /\ \A i \in 1..12 : RLt(EffectiveMultiplier(data, i),
                                         EffectiveMultiplier(data, i + 1))
            /\ TotalMonths > 0 =>
                 \A i \in 1..Len(data) :
                    EffectiveMultiplier(data, i) =
                        RAdd(sim.growth_multiplier,
                             RMul(RSub(sim.expected_future_growth_multiplier,
                                       sim.growth_multiplier),
                                  Rat(i - 1, TotalMonths)))

\* C2 amended: the effective multiplier of the generated month k months after
\* the start ramps linearly from initial (k = 0) to initial x future
\* (k = horizon); with 1.5, 2.0 and 12 months it is 1.5 at month 0, 3.0 at
\* month 12 and strictly increasing from each generated month to the next;
\* with a horizon of 0 months it is the initial one.
C2_RampEndsAtInitialTimesFuture ==
    ProjectionDone =>
        LET data == projected.value.value
            first == sim.growth_multiplier
            last == RMul(sim.growth_multiplier, sim.expected_future_growth_multiplier)
        IN  /\ Ramp15To20Over12 =>
                 /\ Len(data) >= 1 => EffectiveMultiplier(data, 1) = Rat(3, 2)
                 /\ Len(data) >= 13 => EffectiveMultiplier(data, 13) = I(3)
                 /\ \A i \in 1..(Len(data) - 1) :
                       RLt(EffectiveMultiplier(data, i), EffectiveMultiplier(data, i + 1))
            /\ \A i \in 1..Len(data) :
                  EffectiveMultiplier(data, i) =
                      IF TotalMonths > 0
                      THEN RAdd(first, RMul(RSub(last, first), Rat(i - 1, TotalMonths)))
                      ELSE first

C2_Witness ==
    /\ ProjectionDone
    /\ Ramp15To20Over12
    /\ Len(projected.value.value) = 13

(***************************************************************************)
(* A whole run of a newly constructed simulator, as one function           *)
(***************************************************************************)
RECURSIVE RunLoop(_, _)
RunLoop(self, fr) ==
    IF fr.week_num = Len(fr.weekly_df)
    THEN Returned(fr.apy_scenario, fr.results)
    ELSE LET st == WeekStep(self, fr)
         IN  IF st.raised THEN Raised(fr.apy_scenario, st.error)
             ELSE RunLoop(self, st.frame)

\* RPCfiSimulator(cfg).run_simulation(apy_scenario)
FreshRun(cfg, apy_scenario) ==
    LET self == SimulatorInit(cfg)
        st == StartFrame(self, apy_scenario)
    IN  IF st.raised THEN Raised(apy_scenario, st.error)
        ELSE RunLoop(self, st.frame)

(***************************************************************************)
(* More vocabulary of the properties                                       *)
(***************************************************************************)
\* Every table there is: the one being built and the ones returned.
Tables == {frame.results} \cup {calls[i].value : i \in ReturnedCalls}

PriceOk(token) ==
    /\ HasPrice(sim, token)
    /\ RLt(I(0), sim.token_prices[token])
PositivePrices == PriceOk(sim.native_token) /\ PriceOk(sim.governance_token)

PositiveApys == \A name \in DOMAIN sim.apy_scenarios : RLt(I(0), sim.apy_scenarios[name])

NonNegativeRevenue(table) ==
    \A w \in 1..Len(table) : RLe(I(0), table[w].RPC_Revenue_USD)

ConfiguredBaseline == RSum(sim.config.initial_lp)

NonDecreasing(table, column) ==
    /\ Len(table) > 0 => RLe(I(0), table[1][column])
    /\ \A w \in 2..Len(table) : RLe(table[w - 1][column], table[w][column])

(***************************************************************************)
(* C3                                                                      *)
(***************************************************************************)
\* C3 as stated: with weekly revenue >= 0, prices > 0 and APY > 0 the three
\* cumulative columns never decrease from one record to the next, and start >= 0.
C3_CumulativesNonDecreasing ==
    \A table \in Tables :
        (NonNegativeRevenue(table) /\ PositivePrices /\ PositiveApys) =>
            /\ NonDecreasing(table, "Cumulative_RPCfi_LP_USD")
            /\ NonDecreasing(table, "Cumulative_Dev_Yield_USD")
            /\ NonDecreasing(table, "Cumulative_Foundation_Yield_USD")

\* C3 amended: the same, for configurations whose initial_lp values also sum
\* to a value >= 0.
C3_CumulativesNonDecreasingForBaseline ==
    \A table \in Tables :
        (NonNegativeRevenue(table) /\ PositivePrices /\ PositiveApys
            /\ RLe(I(0), ConfiguredBaseline)) =>
            /\ NonDecreasing(table, "Cumulative_RPCfi_LP_USD")
            /\ NonDecreasing(table, "Cumulative_Dev_Yield_USD")
            /\ NonDecreasing(table, "Cumulative_Foundation_Yield_USD")

C3_Witness ==
    /\ PositivePrices /\ PositiveApys /\ RLt(I(0), ConfiguredBaseline)
    /\ \E i \in ReturnedCalls :
          /\ Len(calls[i].value) >= 8
          /\ RLt(I(0), calls[i].value[1].RPC_Revenue_USD)
          /\ RLt(calls[i].value[1].Cumulative_Foundation_Yield_USD,
                 calls[i].value[2].Cumulative_Foundation_Yield_USD)

(***************************************************************************)
(* C4                                                                      *)
(***************************************************************************)
LiquidityColumns(table) ==
    [w \in 1..Len(table) |->
        <<table[w].Weekly_LP_Value_USD, table[w].Cumulative_RPCfi_LP_USD,
          table[w].Total_LP_TVL_USD>>]

WeeklyLpValues(table, w) == [k \in 1..w |-> table[k].Weekly_LP_Value_USD]

\* C4: the liquidity columns do not depend on the APY scenario (any two runs
\* of a configuration have the same liquidity columns), and the cumulative
\* liquidity of week w is the sum of the weekly liquidity values of weeks 1..w.
C4_NoReinvestment ==
    /\ \A i, j \in ReturnedCalls :
          LiquidityColumns(calls[i].value) = LiquidityColumns(calls[j].value)
    /\ \A table \in Tables : \A w \in 1..Len(table) :
          table[w].Cumulative_RPCfi_LP_USD = RSum(WeeklyLpValues(table, w))

C4_Witness ==
    /\ Len(calls) = 2
    /\ calls[1].kind = "returned" /\ calls[2].kind = "returned"
    /\ calls[1].scenario # calls[2].scenario
    /\ Len(calls[1].value) >= 8
    /\ calls[1].value[8].Dev_Weekly_Yield_USD # calls[2].value[8].Dev_Weekly_Yield_USD
    /\ RLt(I(0), calls[1].value[8].Dev_Weekly_Yield_USD)

(***************************************************************************)
(* C5                                                                      *)
(***************************************************************************)
\* C5: in every record Total_LP_TVL_USD = Cumulative_RPCfi_LP_USD + the sum of
\* the configured initial_lp values, and the run's baseline and the simulator's
\* initial_lp keep the configured value before, during and after a run.
C5_TotalIsCumulativePlusBaseline ==
    /\ sim.initial_lp = sim.config.initial_lp
    /\ frame.foundation_lp_value.present =>
          frame.foundation_lp_value.value = ConfiguredBaseline
    /\ \A table \in Tables : \A w \in 1..Len(table) :
          table[w].Total_LP_TVL_USD =
              RAdd(table[w].Cumulative_RPCfi_LP_USD, ConfiguredBaseline)

C5_Witness ==
    /\ ~RIsZero(ConfiguredBaseline)
    /\ Len(sim.config.initial_lp) = 2
    /\ \E i \in ReturnedCalls :
          /\ Len(calls[i].value) = 12
          /\ RLt(I(0), calls[i].value[12].Cumulative_RPCfi_LP_USD)

(***************************************************************************)
(* C6                                                                      *)
(***************************************************************************)
\* C6: each buyback is exactly 25% of the week's revenue, so in every record
\* TRX_Buyback_USD + ANKR_Buyback_USD is exactly 50% of RPC_Revenue_USD.
C6_BuybacksAreHalfOfRevenue ==
    /\ (pc = "loop" /\ frame.week_num > 0) =>
          LET revenue == frame.weekly_df[frame.week_num].RPC_Revenue_USD
          IN  /\ frame.trx_buyback.value = RMul(Rat(1, 4), revenue)
              /\ frame.ankr_buyback.value = RMul(Rat(1, 4), revenue)
    /\ \A table \in Tables : \A w \in 1..Len(table) :
          /\ table[w].TRX_Buyback_USD = RMul(Rat(1, 4), table[w].RPC_Revenue_USD)
          /\ table[w].ANKR_Buyback_USD = RMul(Rat(1, 4), table[w].RPC_Revenue_USD)
          /\ RAdd(table[w].TRX_Buyback_USD, table[w].ANKR_Buyback_USD) =
                 RMul(Rat(1, 2), table[w].RPC_Revenue_USD)

C6_Witness ==
    \E i \in ReturnedCalls :
        /\ Len(calls[i].value) >= 4
        /\ RLt(I(0), calls[i].value[4].RPC_Revenue_USD)
        /\ RLt(I(0), calls[i].value[4].TRX_Buyback_USD)

(***************************************************************************)
(* C7                                                                      *)
(***************************************************************************)
\* C7: whatever calls came before on the same simulator, each call gives its
\* caller exactly what a single run of a newly constructed simulator with the
\* same configuration and scenario gives; so equal inputs give equal outputs.
C7_RunIsFunctionOfConfigAndScenario ==
    \A i \in 1..Len(calls) : calls[i] = FreshRun(sim.config, calls[i].scenario)

C7_Witness ==
    /\ Len(calls) = 2
    /\ calls[1].kind = "returned" /\ calls[2].kind = "returned"
    /\ calls[1].scenario = "best" /\ calls[2].scenario = "base"
    /\ Len(calls[2].value) = 12
    /\ RLt(I(0), calls[2].value[12].Cumulative_Dev_Yield_USD)

(***************************************************************************)
(* C8                                                                      *)
(***************************************************************************)
UnknownScenario(name) == name \notin DOMAIN sim.apy_scenarios

\* C8: a call with a scenario name that is no key of the scenario set raises
\* before any weekly record is computed, returns nothing, and leaves
\* simulation_data as it was when the call was entered.
C8_UnknownScenarioRaisesFirst ==
    /\ \A i \in 1..Len(calls) :
          UnknownScenario(calls[i].scenario) => calls[i].kind = "raised"
    /\ (frame.apy_scenario # "" /\ UnknownScenario(frame.apy_scenario)) =>
          /\ pc = "idle"
          /\ calls # <<>>
          /\ calls[Len(calls)].kind = "raised"
          /\ calls[Len(calls)].scenario = frame.apy_scenario
          /\ frame.results = <<>>
          /\ frame.week_num = 0
          /\ ~frame.trx_buyback.present
          /\ sim.simulation_data = entry

C8_Witness ==
    /\ Len(calls) = 2
    /\ calls[1].kind = "returned"
    /\ Len(calls[1].value) = 12
    /\ calls[2].kind = "raised"
    /\ calls[2].error = "KeyError"
    /\ UnknownScenario(calls[2].scenario)
    /\ frame.weekly_df # <<>>
    /\ sim.simulation_data = Some(calls[1].value)

(***************************************************************************)
(* C9                                                                      *)
(***************************************************************************)
\* C9: a configuration whose native or governance token price is zero,
\* negative or missing is rejected before any week is simulated: no week's
\* buyback is computed and no run returns a result.
C9_BadPriceRejectedBeforeAnyWeek ==
    ~PositivePrices =>
        /\ ReturnedCalls = {}
        /\ pc = "idle"
        /\ ~frame.trx_buyback.present

(***************************************************************************)
(* C10                                                                     *)
(***************************************************************************)
\* C10: with a start date later than the end date run_simulation fails before
\* any week is simulated and never returns a result, not even an empty one.
C10_StartAfterEndRejected ==
    ~ValidPeriod =>
        /\ ReturnedCalls = {}
        /\ pc = "idle"

(***************************************************************************)
(* C11                                                                     *)
(***************************************************************************)
\* The weekly points the simulator's configuration projects: what line 177
\* loads from what line 174 generates.
ProjectedWeeks == load_revenue_data(generate_future_revenue_data(sim).value)

\* A table with one record for every projected week, in week order.
CompleteTable(table) ==
    /\ ~generate_future_revenue_data(sim).raised
    /\ Len(table) = Len(ProjectedWeeks)
    /\ \A w \in 1..Len(table) :
          /\ table[w].Week = w
          /\ table[w].Date = ProjectedWeeks[w].Date

LastCallRaised == calls # <<>> /\ calls[Len(calls)].kind = "raised"

\* C11: in every reachable state simulation_data is None or the complete
\* table of a run that went through all its weeks and returned it; a call
\* that raises hands no table to its caller, and while a call is running and
\* after it raised simulation_data is what it was when the call was entered.
C11_NoPartialResult ==
    /\ sim.simulation_data.present =>
          /\ CompleteTable(sim.simulation_data.value)
          /\ \E i \in ReturnedCalls : calls[i].value = sim.simulation_data.value
    /\ \A i \in RaisedCalls : calls[i].value = <<>>
    /\ (pc = "loop" \/ (pc = "idle" /\ LastCallRaised)) => sim.simulation_data = entry

\* A call raised KeyError inside its first week, after the buybacks of that
\* week were computed, and simulation_data is still what it was on entry.
C11_Witness ==
    /\ pc = "idle"
    /\ LastCallRaised
    /\ calls[Len(calls)].error = "KeyError"
    /\ frame.trx_buyback.present
    /\ frame.results = <<>>
    /\ sim.simulation_data = entry

(***************************************************************************)
(* C12                                                                     *)
(***************************************************************************)
\* The month keys of a series ascend strictly.
Chronological(series) ==
    \A i \in 1..(Len(series) - 1) :
        \/ series[i][1][1] < series[i + 1][1][1]
        \/ /\ series[i][1][1] = series[i + 1][1][1]
           /\ series[i][1][2] < series[i + 1][1][2]

\* The base revenue before scaling that a projection used: the revenue of its
\* first month (growth factor 1) divided by the initial multiplier.
UsedLastMonthRevenue(revenue_data) == RDiv(revenue_data[1][2], sim.growth_multiplier)

\* C12: with a historical series that is not in chronological order the
\* projection does not raise and its base revenue is no value of that series
\* but the default 35000.
C12_NonChronologicalFallsBack ==
    (projected.present /\ ~Chronological(sim.historical_data)) =>
        /\ ~projected.value.raised
        /\ Len(projected.value.value) >= 1 =>
              LET used == UsedLastMonthRevenue(projected.value.value)
              IN  /\ used = I(35000)
                  /\ \A i \in 1..Len(sim.historical_data) :
                        used # sim.historical_data[i][2]

(***************************************************************************)
(* C13                                                                     *)
(***************************************************************************)
\* The objects handed to callers so far, as indices of refs.returned.
Handed == 1..Len(refs.returned)

\* Every call that returned got an object of its own, and every object handed
\* out still holds what the call returned.
FreshAndUntouched ==
    /\ {refs.returned[k].call : k \in Handed} = ReturnedCalls
    /\ \A k \in Handed :
          /\ refs.returned[k].object \in 1..Len(objects)
          /\ objects[refs.returned[k].object] = calls[refs.returned[k].call].value
    /\ \A k, l \in Handed :
          k # l => refs.returned[k].object # refs.returned[l].object

TablesWithApy ==
    (IF frame.apy.present
     THEN {[table |-> frame.results, apy |-> frame.apy.value]} ELSE {})
    \cup {[table |-> calls[i].value, apy |-> sim.apy_scenarios[calls[i].scenario]] :
             i \in ReturnedCalls}

\* amount x (apy / 100) / 52, as the weekly rate apy / 5200 of the amount
WeeklyYieldOf(amount, apy) == RMul(amount, RDiv(apy, I(5200)))

\* C14: in every record of a run Foundation_Weekly_Yield_USD is
\* sum(initial_lp) x (APY / 100) / 52, the same every week whatever the
\* revenue and the cumulative developer liquidity of the week; with a
\* baseline of 100000 and an APY of 30 it is 100000 x 0.30 / 52 (= 7500/13).
C14_FoundationYieldConstant ==
    \A t \in TablesWithApy :
        \A w \in 1..Len(t.table) :
            /\ t.table[w].Foundation_Weekly_Yield_USD =
                   WeeklyYieldOf(ConfiguredBaseline, t.apy)
            /\ t.table[w].Foundation_Weekly_Yield_USD =
                   t.table[1].Foundation_Weekly_Yield_USD
            /\ (ConfiguredBaseline = I(100000) /\ t.apy = I(30)) =>
                   t.table[w].Foundation_Weekly_Yield_USD = Rat(7500, 13)

\* A returned 12-week run with baseline 100000 and APY 30 whose revenue and
\* cumulative developer liquidity differ between the first and last week.
C14_Witness ==
    \E i \in ReturnedCalls :
        LET table == calls[i].value
        IN  /\ ConfiguredBaseline = I(100000)
            /\ sim.apy_scenarios[calls[i].scenario] = I(30)
            /\ Len(table) = 12
            /\ table[1].RPC_Revenue_USD # table[12].RPC_Revenue_USD
            /\ table[1].Cumulative_RPCfi_LP_USD # table[12].Cumulative_RPCfi_LP_USD
            /\ table[12].Foundation_Weekly_Yield_USD = Rat(7500, 13)

(***************************************************************************)
(* C15                                                                     *)
(***************************************************************************)
\* start and end lie in the same calendar month and start <= end
ZeroMonthPeriod == ValidPeriod /\ TotalMonths = 0

\* C15: with start and end in the same calendar month (start <= end) the
\* projection does not fail; it has exactly one month, the start month, whose
\* revenue is the last historical value times the initial multiplier, and a
\* run returns 4 weekly records (so with the series {2025-09: 35000} the
\* month's revenue is 35000 x initial multiplier).
C15_ZeroMonthPeriodGivesOneMonth ==
    ZeroMonthPeriod =>
        /\ \A i \in RaisedCalls : calls[i].error # "ValueError"
        /\ pc = "loop" =>
              frame.revenue_data =
                  << <<MonthKey(ConfigStart),
                       RMul(LastMonthRevenue(sim), sim.growth_multiplier)>> >>
        /\ (pc = "loop" /\ sim.historical_data = SingleEntryHistory) =>
              frame.revenue_data[1][2] = RMul(I(35000), sim.growth_multiplier)
        /\ \A i \in ReturnedCalls : Len(calls[i].value) = 4

(***************************************************************************)
(* C16                                                                     *)
(***************************************************************************)
\* The configuration has no historical_data key, or an empty series.
NoHistory ==
    ~sim.config.historical_data.present \/ sim.config.historical_data.value = <<>>

MilestoneBreakpoints ==
    << <<0, I(1)>>, <<3, Rat(3, 2)>>, <<12, I(2)>>, <<18, I(3)>> >>

\* The milestone curve: linear between consecutive breakpoints, and the last
\* factor from the last breakpoint on.
MilestoneFactor(elapsed) ==
    LET n == Len(MilestoneBreakpoints)
    IN  IF elapsed >= MilestoneBreakpoints[n][1]
        THEN MilestoneBreakpoints[n][2]
        ELSE LET k == CHOOSE j \in 1..(n - 1) :
                          /\ MilestoneBreakpoints[j][1] <= elapsed
                          /\ elapsed < MilestoneBreakpoints[j + 1][1]
                 lo == MilestoneBreakpoints[k]
                 hi == MilestoneBreakpoints[k + 1]
             IN  RAdd(lo[2], RMul(RSub(hi[2], lo[2]),
                                  Rat(elapsed - lo[1], hi[1] - lo[1])))

MilestoneSelected ==
    /\ "growth_strategy" \in DOMAIN sim.config
    /\ sim.config.growth_strategy = "milestone"

\* C17: when the configuration selects the milestone strategy, the month
\* `elapsed` months after the start is projected at the base revenue (not
\* pre-scaled) times the milestone factor: 1.0 at 0, 1.5 at 3, 2.0 at 12, 3.0
\* at 18 and beyond, linear between consecutive breakpoints.
C17_MilestoneCurveSelectable ==
    (ProjectionDone /\ MilestoneSelected) =>
        LET data == projected.value.value
            Factor(elapsed) == EffectiveMultiplier(data, elapsed + 1)
        IN  /\ \A i \in 1..Len(data) : Factor(i - 1) = MilestoneFactor(i - 1)
            /\ Len(data) >= 1 => Factor(0) = I(1)
            /\ Len(data) >= 4 => Factor(3) = Rat(3, 2)
            /\ Len(data) >= 13 => Factor(12) = I(2)
            /\ Len(data) >= 19 => Factor(18) = I(3)
            /\ Len(data) >= 25 => Factor(24) = I(3)

(***************************************************************************)
(* C18                                                                     *)
(***************************************************************************)
DevWeeklyYields(table, w) == [k \in 1..w |-> table[k].Dev_Weekly_Yield_USD]

\* C18: the developer yield of week i is taken on the liquidity that already
\* includes week i's deposit: (sum of Weekly_LP_Value_USD over weeks 1..i)
\* x (APY / 100) / 52.  The steps of a week run in the order buyback,
\* liquidity update, yield, cumulative-yield update, append: the record's
\* cumulative yield already includes the week's yield, and the record is
\* appended with the totals the week ended with.
C18_YieldAfterDeposit ==
    /\ \A t \in TablesWithApy :
          \A w \in 1..Len(t.table) :
              /\ t.table[w].Dev_Weekly_Yield_USD =
                     WeeklyYieldOf(RSum(WeeklyLpValues(t.table, w)), t.apy)
              /\ t.table[w].Cumulative_Dev_Yield_USD =
                     RSum(DevWeeklyYields(t.table, w))
              /\ t.table[w].Weekly_LP_Value_USD =
                     RAdd(RMul(t.table[w].TRX_Units, sim.token_prices.TRX),
                          RMul(t.table[w].ANKR_Units, sim.token_prices.ANKR))
    /\ (pc = "loop" \/ (pc = "idle" /\ frame.apy.present)) =>
          /\ Len(frame.results) = frame.week_num
          /\ frame.week_num >= 1 =>
                LET last == frame.results[frame.week_num]
                IN  /\ last.Week = frame.week_num
                    /\ last.Cumulative_RPCfi_LP_USD = frame.cumulative_dev_lp
                    /\ last.Cumulative_Dev_Yield_USD = frame.cumulative_dev_yield
                    /\ last.TRX_Buyback_USD = frame.trx_buyback.value

\* A run in its second week or later whose first week already paid a
\* developer yield on that week's own deposit.
C18_Witness ==
    /\ pc = "loop"
    /\ frame.week_num >= 2
    /\ RLt(I(0), frame.results[1].Weekly_LP_Value_USD)
    /\ RLt(I(0), frame.apy.value)
    /\ frame.results[1].Dev_Weekly_Yield_USD =
           WeeklyYieldOf(frame.results[1].Weekly_LP_Value_USD, frame.apy.value)
    /\ RLt(frame.results[1].Dev_Weekly_Yield_USD, frame.results[2].Dev_Weekly_Yield_USD)

(***************************************************************************)
(* C19                                                                     *)
(***************************************************************************)
\* The weekly points that entry m of a projection was expanded to.
PointsOfMonth(weekly_df, m) == [j \in 1..4 |-> weekly_df[4 * (m - 1) + j]]

\* C19: every month of the projection is expanded to exactly 4 weekly points,
\* each with the month's revenue / 4.33, dated the first day of the month
\* plus 0, 1, 2 and 3 weeks; the 4 revenues sum to the month's revenue
\* x 4/4.33, not to the month's revenue; the dates of the whole weekly
\* sequence increase strictly.
C19_FourWeeksPerMonth ==
    LET months == frame.revenue_data
        weeks == frame.weekly_df
    IN  /\ Len(weeks) = 4 * Len(months)
        /\ \A m \in 1..Len(months) :
              LET key == months[m][1]
                  monthly == months[m][2]
                  points == PointsOfMonth(weeks, m)
              IN  /\ \A j \in 1..4 :
                        /\ points[j].RPC_Revenue_USD = RDiv(monthly, Rat(433, 100))
                        /\ points[j].Date = Date(key[1], key[2], 1 + 7 * (j - 1))
                  /\ RSum([j \in 1..4 |-> points[j].RPC_Revenue_USD]) =
                         RMul(monthly, Rat(400, 433))
                  /\ ~RIsZero(monthly) =>
                         RSum([j \in 1..4 |-> points[j].RPC_Revenue_USD]) # monthly
        /\ \A w \in 1..(Len(weeks) - 1) : DateLt(weeks[w].Date, weeks[w + 1].Date)

\* A run over three months of different positive revenue, across a change of
\* year: 12 weekly points.
C19_Witness ==
    /\ pc = "loop"
    /\ Len(frame.revenue_data) = 3
    /\ Len(frame.weekly_df) = 12
    /\ frame.revenue_data[1][1][1] < frame.revenue_data[3][1][1]
    /\ RLt(I(0), frame.revenue_data[1][2])
    /\ RLt(frame.revenue_data[1][2], frame.revenue_data[3][2])
    /\ frame.weekly_df[12].Date = Date(2027, 1, 22)

(***************************************************************************)
(* C20                                                                     *)
(***************************************************************************)
\* Exact arithmetic on the numbers m x 2^e (m of any size), to measure what
\* rounding did.
DyMinE(a, b) == IF a.e <= b.e THEN a.e ELSE b.e
DyAt(a, e) == BigShl(a.m, a.e - e)
DyAdd(a, b) == [m |-> BigAdd(DyAt(a, DyMinE(a, b)), DyAt(b, DyMinE(a, b))),
                e |-> DyMinE(a, b)]
DyLe(a, b) == BigCmp(DyAt(a, DyMinE(a, b)), DyAt(b, DyMinE(a, b))) <= 0
DyAbsDiff(a, b) ==
    [m |-> IF DyLe(a, b)
           THEN BigSub(DyAt(b, DyMinE(a, b)), DyAt(a, DyMinE(a, b)))
           ELSE BigSub(DyAt(a, DyMinE(a, b)), DyAt(b, DyMinE(a, b))),
     e |-> DyMinE(a, b)]
DyEq(a, b) == DyAbsDiff(a, b).m = <<>>
DyScale(a, k) == [m |-> a.m, e |-> a.e + k]
DyTimes(a, n) == [m |-> BigMulLimb(a.m, n), e |-> a.e]

\* 50% of the exact sum of the gross revenue of weeks 1..w
RECURSIVE HalfRevenueTo(_, _)
HalfRevenueTo(results, w) ==
    IF w = 0 THEN Zero64
    ELSE DyAdd(HalfRevenueTo(results, w - 1),
               DyScale(results[w].RPC_Revenue_USD, -1))

\* The exact sum of the two buybacks of a record.
Deposited(record) == DyAdd(record.TRX_Buyback_USD, record.ANKR_Buyback_USD)

\* C20 as stated: for prices > 0 the value of the units bought is the USD
\* deposited, Weekly_LP_Value_USD = TRX_Buyback_USD + ANKR_Buyback_USD, and
\* the cumulative liquidity at week i is 50% of the sum of the gross revenue
\* of weeks 1..i.
C20_RoundTripExact ==
    \A w \in 1..Len(run64.results) :
        LET record == run64.results[w]
        IN  /\ record.Weekly_LP_Value_USD =
                   FAdd(record.TRX_Buyback_USD, record.ANKR_Buyback_USD)
            /\ DyEq(record.Weekly_LP_Value_USD, Deposited(record))
            /\ DyEq(record.Cumulative_RPCfi_LP_USD, HalfRevenueTo(run64.results, w))

\* C20 amended: the equalities hold up to the rounding of the float
\* operations.  The two buybacks are exactly 50% of the week's revenue;
\* Weekly_LP_Value_USD differs from their sum by at most 2^-51 of it, and the
\* cumulative liquidity at week i differs from 50% of the sum of the gross
\* revenue of weeks 1..i by at most (i + 4) x 2^-53 of it.
C20_RoundTripWithinRounding ==
    \A w \in 1..Len(run64.results) :
        LET record == run64.results[w]
            half == HalfRevenueTo(run64.results, w)
        IN  /\ DyEq(Deposited(record), DyScale(record.RPC_Revenue_USD, -1))
            /\ DyLe(DyAbsDiff(record.Weekly_LP_Value_USD, Deposited(record)),
                    DyScale(Deposited(record), -51))
            /\ DyLe(DyAbsDiff(record.Cumulative_RPCfi_LP_USD, half),
                    DyScale(DyTimes(half, w + 4), -53))

\* Four weeks at positive prices, in one of which the value of the units is
\* not the float sum of the two buybacks.
C20_Witness ==
    /\ Len(run64.results) = 4
    /\ \E w \in 1..4 :
          run64.results[w].Weekly_LP_Value_USD #
              FAdd(run64.results[w].TRX_Buyback_USD, run64.results[w].ANKR_Buyback_USD)

(***************************************************************************)
(* C21                                                                     *)
(***************************************************************************)
\* C21: the growth multipliers of a run are inputs of the run, not ambient
\* state: every run started from the Overview page gives what a run of a
\* simulator constructed from the same configuration gives for the same APY
\* scenario, whatever the session state holds, and on every page render the
\* simulator's growth_multiplier and expected_future_growth_multiplier are
\* the configured values.
C21_GrowthMultipliersAreRunInputs ==
    /\ \A i \in 1..Len(calls) : calls[i] = FreshRun(sim.config, calls[i].scenario)
    /\ sim.growth_multiplier = sim.config.growth_multiplier
    /\ sim.expected_future_growth_multiplier =
           sim.config.expected_future_growth_multiplier

====
